---- MODULE Spec2Model ----
(***************************************************************************)
(* Model of serve.py: MyHTTPRequestHandler, a SimpleHTTPRequestHandler     *)
(* whose end_headers and guess_type are overridden, run by a               *)
(* socketserver.TCPServer serve loop.                                      *)
(*                                                                         *)
(* Strings that the code inspects character by character (request paths,   *)
(* file-system paths, extensions) are sequences of one-character strings,  *)
(* so that endswith, split and splitext are computed and not assumed.  A    *)
(* percent escape is one element ("%2e", "%00"), and so is the NUL          *)
(* character it may decode to.  Header names, header                       *)
(* values and file contents are only compared and concatenated, and are    *)
(* TLA+ strings.  The inherited methods are modelled from the CPython 3.11 *)
(* http.server and socketserver modules that serve.py runs on.             *)
(***************************************************************************)
EXTENDS Integers, Sequences, FiniteSets, TLC

VARIABLES
    fs,          \* the file system: regular files (path -> bytes) and directories
    types_map,   \* the platform MIME table (mimetypes.types_map), extension -> type
    running,     \* serve_forever has not been interrupted
    pc,          \* position of the serve loop: idle, handling, copy, done, stopped
    request,     \* the request line and headers read from the accepted connection
    h,           \* the handler instance of the accepted connection
    crashed,     \* the last connection ended in handle_error (uncaught exception)
    memo         \* a remembered (request, response) pair, for comparing repeats

vars == <<fs, types_map, running, pc, request, h, crashed, memo>>

----------------------------------------------------------------------------
(* str methods on character sequences *)

EndsWith(s, suf) ==
    Len(s) >= Len(suf) /\ SubSeq(s, Len(s) - Len(suf) + 1, Len(s)) = suf

StartsWith(s, pre) ==
    Len(s) >= Len(pre) /\ SubSeq(s, 1, Len(pre)) = pre

\* str.find(c) + 1: position of the first c in s, 0 when there is none
Find(s, c) ==
    IF \E i \in 1..Len(s) : s[i] = c
    THEN CHOOSE i \in 1..Len(s) : s[i] = c /\ \A j \in 1..(i - 1) : s[j] # c
    ELSE 0

\* position of the last c in s, 0 when there is none (str.rfind(c) + 1)
RFind(s, c) ==
    IF \E i \in 1..Len(s) : s[i] = c
    THEN CHOOSE i \in 1..Len(s) : s[i] = c /\ \A j \in (i + 1)..Len(s) : s[j] # c
    ELSE 0

\* s.split(c, 1)[0]
SplitFirst(s, c) ==
    IF Find(s, c) = 0 THEN s ELSE SubSeq(s, 1, Find(s, c) - 1)

\* s.split(c): the components between the separators, empty ones included
RECURSIVE Split(_, _)
Split(s, c) ==
    IF Find(s, c) = 0 THEN <<s>>
    ELSE <<SubSeq(s, 1, Find(s, c) - 1)>> \o Split(SubSeq(s, Find(s, c) + 1, Len(s)), c)

\* c.join(comps)
RECURSIVE Join(_, _)
Join(comps, c) ==
    IF Len(comps) = 0 THEN <<>>
    ELSE IF Len(comps) = 1 THEN comps[1]
    ELSE comps[1] \o <<c>> \o Join(Tail(comps), c)

\* s.lstrip('/')
RECURSIVE LStripSlash(_)
LStripSlash(s) ==
    IF Len(s) > 0 /\ s[1] = "/" THEN LStripSlash(Tail(s)) ELSE s

\* str.lower() on the letters the modelled names use
LowerChar(c) ==
    CASE c = "J" -> "j" [] c = "S" -> "s" [] c = "U" -> "u" [] OTHER -> c

Lower(s) == [i \in 1..Len(s) |-> LowerChar(s[i])]

\* urllib.parse.unquote: each percent escape becomes the character it encodes
UnquoteChar(c) ==
    CASE c = "%2e" -> "." [] c = "%2f" -> "/" [] c = "%00" -> "NUL" [] OTHER -> c

unquote(s) == [i \in 1..Len(s) |-> UnquoteChar(s[i])]

----------------------------------------------------------------------------
(* posixpath *)

\* the loop of posixpath.normpath over the components, new_comps accumulated
RECURSIVE NormComps(_, _, _)
NormComps(comps, new_comps, initial_slashes) ==
    IF Len(comps) = 0 THEN new_comps
    ELSE LET comp == Head(comps) IN
         IF comp = <<>> \/ comp = <<".">>
         THEN NormComps(Tail(comps), new_comps, initial_slashes)
         ELSE IF comp # <<".", ".">>
                 \/ (initial_slashes = 0 /\ Len(new_comps) = 0)
                 \/ (Len(new_comps) > 0 /\ new_comps[Len(new_comps)] = <<".", ".">>)
         THEN NormComps(Tail(comps), Append(new_comps, comp), initial_slashes)
         ELSE IF Len(new_comps) > 0
         THEN NormComps(Tail(comps), SubSeq(new_comps, 1, Len(new_comps) - 1), initial_slashes)
         ELSE NormComps(Tail(comps), new_comps, initial_slashes)

normpath(path) ==
    IF Len(path) = 0 THEN <<".">>
    ELSE LET initial_slashes ==
                 IF ~StartsWith(path, <<"/">>) THEN 0
                 ELSE IF StartsWith(path, <<"/", "/">>) /\ ~StartsWith(path, <<"/", "/", "/">>)
                      THEN 2 ELSE 1
             joined == Join(NormComps(Split(path, "/"), <<>>, initial_slashes), "/")
             out == [i \in 1..initial_slashes |-> "/"] \o joined
         IN  IF Len(out) = 0 THEN <<".">> ELSE out

\* posixpath.splitext(path)[1]: from the last dot of the last component, a
\* leading dot of that component not counted
splitext_ext(path) ==
    LET sepIndex == RFind(path, "/")
        dotIndex == RFind(path, ".")
    IN  IF dotIndex > sepIndex
           /\ \E i \in (sepIndex + 1)..(dotIndex - 1) : path[i] # "."
        THEN SubSeq(path, dotIndex, Len(path))
        ELSE <<>>

\* os.path.join(path, word) for a relative word
os_path_join(path, word) ==
    IF Len(path) = 0 \/ EndsWith(path, <<"/">>) THEN path \o word
    ELSE path \o <<"/">> \o word

----------------------------------------------------------------------------
(* The file system the handler reads.  The document root is the working     *)
(* directory of the process, /w; /s lies outside it.                        *)

directory == <<"/", "w">>

SLASH == <<"/">>
DOT_JS == <<".", "j", "s">>
DOT_MJS == <<".", "m", "j", "s">>
DOT_CSS == <<".", "c", "s", "s">>
DOT_HTML == <<".", "h", "t", "m", "l">>
INDEX_HTML == <<"i", "n", "d", "e", "x">> \o DOT_HTML
INDEX_HTM == <<"i", "n", "d", "e", "x", ".", "h", "t", "m">>

InsideFiles ==
    (directory \o <<"/", "g">> \o DOT_JS :> "export default 1;")
    @@ (directory \o <<"/", "m">> \o DOT_MJS :> "export {};")
    @@ (directory \o <<"/", "U", ".", "J", "S">> :> "var u;")
    @@ (directory \o <<"/", "a">> \o DOT_CSS :> "a{}")
    @@ (directory \o <<"/", "k">> \o DOT_CSS :> "k{}")
    @@ (directory \o SLASH \o INDEX_HTML :> "<h1>")

OutsideFiles == (<<"/", "s">> :> "secret")

\* a file of the document root that has the name of the file outside it
ShadowFile == (directory \o <<"/", "s">> :> "inner")

Dirs == {SLASH, directory, directory \o <<"/", "d">>}

\* files that exist but that the server's user may not open
Locked == {directory \o <<"/", "k">> \o DOT_CSS}

FileSystems ==
    { [files |-> InsideFiles @@ OutsideFiles @@ extra, dirs |-> Dirs, locked |-> Locked] :
        extra \in {<<>>, ShadowFile} }

\* The platform table: the entry of .js and .mjs differs between platforms
\* (application/javascript in older CPython tables, text/javascript in newer ones).
MimeTables ==
    { (DOT_JS :> js) @@ (DOT_MJS :> js) @@ (DOT_CSS :> "text/css") @@ (DOT_HTML :> "text/html") :
        js \in {"application/javascript", "text/javascript"} }

\* path resolution by the kernel: "." and empty components skipped, ".." to the parent
Canon(path) ==
    SLASH \o Join(NormComps(Split(path, "/"), <<>>, 1), "/")

\* the path has an embedded null byte: os.stat and open raise ValueError
HasNul(path) == \E i \in 1..Len(path) : path[i] = "NUL"

\* os.path.isdir and os.path.isfile answer False when os.stat raises
os_path_isdir(path) == ~HasNul(path) /\ Canon(path) \in fs.dirs

os_path_isfile(path) ==
    ~HasNul(path) /\ Canon(path) \in DOMAIN fs.files /\ ~EndsWith(path, SLASH)

\* open(path, 'rb') succeeds; otherwise it raises OSError
open_ok(path) == os_path_isfile(path) /\ Canon(path) \notin fs.locked

file_bytes(path) == fs.files[Canon(path)]

InsideRoot(canon) == StartsWith(canon, directory \o SLASH)

----------------------------------------------------------------------------
(* SimpleHTTPRequestHandler.translate_path and guess_type *)

\* variant: ".." is not dropped from the words
RECURSIVE FilterWords_keep_dotdot(_)
FilterWords_keep_dotdot(words) ==
    IF Len(words) = 0 THEN <<>>
    ELSE LET word == Head(words) IN
         IF word = <<>> \/ word = <<".">>
         THEN FilterWords_keep_dotdot(Tail(words))
         ELSE <<word>> \o FilterWords_keep_dotdot(Tail(words))

\* the words of the normalised path that may name a file or directory
RECURSIVE FilterWords(_)
FilterWords(words) ==
    IF Len(words) = 0 THEN <<>>
    ELSE LET word == Head(words) IN
         IF word = <<>> \/ word = <<".">> \/ word = <<".", ".">>
         THEN FilterWords(Tail(words))
         ELSE <<word>> \o FilterWords(Tail(words))

RECURSIVE JoinWords(_, _)
JoinWords(path, words) ==
    IF Len(words) = 0 THEN path
    ELSE JoinWords(os_path_join(path, Head(words)), Tail(words))

translate_path(path) ==
    LET p1 == SplitFirst(SplitFirst(path, "?"), "#")
        trailing_slash == EndsWith(p1, SLASH)
        p2 == normpath(unquote(p1))
        words == FilterWords(Split(p2, "/"))
        p3 == JoinWords(directory, words)
    IN  IF trailing_slash THEN p3 \o SLASH ELSE p3

\* Python values that reach the "%s" of send_header: a str, or a 2-tuple
PyStr(s) == [tuple |-> FALSE, a |-> s, b |-> ""]
PyTuple(x, y) == [tuple |-> TRUE, a |-> x, b |-> y]

\* "%s" % value
PyFormat(value) ==
    IF value.tuple THEN "('" \o value.a \o "', " \o value.b \o ")" ELSE value.a

\* SimpleHTTPRequestHandler.extensions_map
extensions_map ==
    (<<".", "g", "z">> :> "application/gzip")
    @@ (<<".", "Z">> :> "application/octet-stream")
    @@ (<<".", "b", "z", "2">> :> "application/x-bzip2")
    @@ (<<".", "x", "z">> :> "application/x-xz")

\* mimetypes.guess_type(path)[0]: the table entry of the extension, looked up
\* as written and then in lower case; "" for None
mimetypes_guess_type(path) ==
    LET ext == splitext_ext(path) IN
    IF ext \in DOMAIN types_map THEN types_map[ext]
    ELSE IF Lower(ext) \in DOMAIN types_map THEN types_map[Lower(ext)]
    ELSE ""

\* SimpleHTTPRequestHandler.guess_type
super_guess_type(path) ==
    LET ext == splitext_ext(path) IN
    IF ext \in DOMAIN extensions_map THEN extensions_map[ext]
    ELSE IF Lower(ext) \in DOMAIN extensions_map THEN extensions_map[Lower(ext)]
    ELSE IF mimetypes_guess_type(path) # "" THEN mimetypes_guess_type(path)
    ELSE "application/octet-stream"

\* MyHTTPRequestHandler.guess_type
guess_type(path) ==
    LET mimetype == super_guess_type(path) IN
    IF EndsWith(path, DOT_JS)
    THEN PyTuple("application/javascript", "None")
    ELSE PyStr(mimetype)

----------------------------------------------------------------------------
(* BaseHTTPRequestHandler: the response is assembled in _headers_buffer and  *)
(* written to wfile.  A line is [kind, k, v]: the status line has the code   *)
(* in k and the reason in v, "blank" ends the header block, "body" carries   *)
(* the body bytes in v.                                                      *)

protocol_version == "HTTP/1.0"
error_content_type == "text/html;charset=utf-8"

Line(kind, k, v) == [kind |-> kind, k |-> k, v |-> v]

\* the handler instance socketserver constructs for an accepted connection
NewHandler ==
    [ hasPath |-> FALSE, path |-> <<>>, command |-> "", request_version |-> "",
      close_connection |-> TRUE, headers_buffer |-> <<>>, wfile |-> <<>>,
      raised |-> "", fOpen |-> FALSE, fData |-> "", ret |-> FALSE ]

send_response_only(hd, code, message) ==
    IF hd.request_version # "HTTP/0.9"
    THEN [hd EXCEPT !.headers_buffer = Append(@, Line("status", ToString(code), message))]
    ELSE hd

send_header(hd, keyword, value) ==
    LET h1 == IF hd.request_version # "HTTP/0.9"
              THEN [hd EXCEPT !.headers_buffer = Append(@, Line("header", keyword, value))]
              ELSE hd
    IN  IF keyword = "Connection" /\ value = "close"
        THEN [h1 EXCEPT !.close_connection = TRUE]
        ELSE h1

flush_headers(hd) ==
    [hd EXCEPT !.wfile = @ \o hd.headers_buffer, !.headers_buffer = <<>>]

\* BaseHTTPRequestHandler.end_headers
super_end_headers(hd) ==
    IF hd.request_version # "HTTP/0.9"
    THEN flush_headers([hd EXCEPT !.headers_buffer = Append(@, Line("blank", "", ""))])
    ELSE hd

\* variant: Access-Control-Allow-Headers is left out
add_cors_headers_two(hd) ==
    send_header(
        send_header(hd, "Access-Control-Allow-Origin", "*"),
        "Access-Control-Allow-Methods", "GET, POST, OPTIONS")

\* the three headers of serve.py lines 14-16
add_cors_headers(hd) ==
    send_header(
        send_header(
            send_header(hd, "Access-Control-Allow-Origin", "*"),
            "Access-Control-Allow-Methods", "GET, POST, OPTIONS"),
        "Access-Control-Allow-Headers", "Content-Type")

\* variant: the base end_headers runs first, the three headers are added after it
end_headers_super_first(hd) ==
    LET h1 == super_end_headers(hd)
        h2 == send_header(
                  send_header(
                      send_header(h1, "Access-Control-Allow-Origin", "*"),
                      "Access-Control-Allow-Methods", "GET, POST, OPTIONS"),
                  "Access-Control-Allow-Headers", "Content-Type")
    IN  IF ~h2.hasPath THEN [h2 EXCEPT !.raised = "AttributeError"] ELSE h2

\* variant: the call of the base end_headers is missing
end_headers_no_super(hd) ==
    LET h1 == send_header(
                  send_header(
                      send_header(hd, "Access-Control-Allow-Origin", "*"),
                      "Access-Control-Allow-Methods", "GET, POST, OPTIONS"),
                  "Access-Control-Allow-Headers", "Content-Type")
    IN  IF ~h1.hasPath THEN [h1 EXCEPT !.raised = "AttributeError"]
        ELSE IF EndsWith(h1.path, DOT_JS) \/ EndsWith(h1.path, DOT_MJS)
        THEN send_header(h1, "Content-Type", "application/javascript")
        ELSE h1

\* MyHTTPRequestHandler.end_headers; reading self.path raises AttributeError
\* when parse_request has not assigned it
end_headers(hd) ==
    LET h1 == add_cors_headers(hd) IN
    IF ~h1.hasPath THEN [h1 EXCEPT !.raised = "AttributeError"]
    ELSE IF EndsWith(h1.path, DOT_JS)
    THEN super_end_headers(send_header(h1, "Content-Type", "application/javascript"))
    ELSE IF EndsWith(h1.path, DOT_MJS)
    THEN super_end_headers(send_header(h1, "Content-Type", "application/javascript"))
    ELSE super_end_headers(h1)

send_response(hd, code, message) ==
    send_header(
        send_header(send_response_only(hd, code, message), "Server", "SimpleHTTP"),
        "Date", "now")

\* error_message_format % {code, message, explain}
ErrorPage(code, message) == "Error response " \o ToString(code) \o " " \o message

send_error(hd, code, message) ==
    LET h1 == send_header(send_response(hd, code, message), "Connection", "close")
        hasBody == code >= 200 /\ code \notin {204, 205, 304}
        body == ErrorPage(code, message)
        h2 == IF hasBody
              THEN send_header(
                       send_header(h1, "Content-Type", error_content_type),
                       "Content-Length", ToString(Len(body)))
              ELSE h1
        h3 == end_headers(h2)
    IN  IF h3.raised # "" THEN h3
        ELSE IF h3.command # "HEAD" /\ hasBody
        THEN [h3 EXCEPT !.wfile = Append(@, Line("body", "", body))]
        ELSE h3

----------------------------------------------------------------------------
(* Requests.  A request line has n whitespace-separated words: the command, *)
(* the path, and as its last word the version; long marks a request line    *)
(* longer than the 65536 bytes handle_one_request reads; ims is the          *)
(* If-Modified-Since header: absent, or older / not older than the file.    *)

RawPaths ==
    {
      <<"/", "g", ".", "j", "s">>,  \* /g.js
      <<"/", "g", ".", "j", "s", "?", "v">>,  \* /g.js?v
      <<"/", "m", ".", "m", "j", "s">>,  \* /m.mjs
      <<"/", "m", ".", "m", "j", "s", "#", "f">>,  \* /m.mjs#f
      <<"/", "U", ".", "J", "S">>,  \* /U.JS
      <<"/", "a", ".", "c", "s", "s">>,  \* /a.css
      <<"/", "a", ".", "c", "s", "s", "?", "x", ".", "j", "s">>,  \* /a.css?x.js
      <<"/", "a", ".", "c", "s", "s", "#", ".", "m", "j", "s">>,  \* /a.css#.mjs
      <<"/", "k", ".", "c", "s", "s">>,  \* /k.css
      <<"/">>,  \* /
      <<"/", "d">>,  \* /d
      <<"/", "d", "/">>,  \* /d/
      <<"/", "n", ".", "j", "s">>,  \* /n.js
      <<"/", "n", ".", "c", "s", "s">>,  \* /n.css
      <<"/", ".", ".", "/", "s">>,  \* /../s
      <<".", ".", "/", "s">>,  \* ../s
      <<"/", "%2e", "%2e", "/", "s">>,  \* /%2e%2e/s
      <<"/", "a", ".", "c", "s", "s", "/">>,  \* /a.css/
      <<"/", "/", "g", ".", "j", "s">>,  \* //g.js
      <<"/", "%00">>  \* /%00
    }

Request(n, command, path, version, long, ims) ==
    [n |-> n, command |-> command, path |-> path, version |-> version,
     long |-> long, ims |-> ims]

\* well-formed request lines: "GET /x" (HTTP/0.9) and "GET /x HTTP/1.x"
WellFormed ==
    { Request(2, "GET", p, "", FALSE, "absent") : p \in RawPaths }
    \cup { Request(3, c, p, v, FALSE, i) :
             c \in {"GET", "HEAD", "POST", "OPTIONS"}, p \in RawPaths,
             v \in {"HTTP/1.0", "HTTP/1.1"}, i \in {"absent", "older", "notolder"} }

\* request lines parse_request or handle_one_request rejects
Malformed ==
    { Request(0, "", <<>>, "", FALSE, "absent"),                 \* a blank line
      Request(1, "GARBAGE", <<>>, "", FALSE, "absent"),
      Request(2, "HEAD", <<"/">>, "", FALSE, "absent"),          \* HTTP/0.9 allows GET only
      Request(3, "GET", <<"/">>, "FOO/1.1", FALSE, "absent"),
      Request(3, "GET", <<"/">>, "HTTP/2.0", FALSE, "absent"),
      Request(4, "GET", <<"/">>, "HTTP/1.1", FALSE, "absent"),
      Request(3, "GET", <<"/">>, "HTTP/1.1", TRUE, "absent") }

Requests == WellFormed \cup Malformed

\* the (major, minor) pair of a version word, <<>> when it does not parse
version_number(version) ==
    CASE version = "HTTP/1.0" -> <<1, 0>>
      [] version = "HTTP/1.1" -> <<1, 1>>
      [] version = "HTTP/2.0" -> <<2, 0>>
      [] OTHER -> <<>>

parse_request(hd, req) ==
    LET h0 == [hd EXCEPT !.command = "", !.request_version = "HTTP/0.9",
                         !.close_connection = TRUE, !.ret = FALSE]
        vn == version_number(req.version)
        h1 == IF req.n >= 3 THEN [h0 EXCEPT !.request_version = req.version] ELSE h0
        h2 == [h1 EXCEPT !.close_connection = IF req.n = 2 THEN TRUE ELSE @,
                         !.command = req.command,
                         !.hasPath = TRUE,
                         !.path = IF StartsWith(req.path, <<"/", "/">>)
                                  THEN SLASH \o LStripSlash(req.path)
                                  ELSE req.path,
                         !.ret = TRUE]
    IN  IF req.n = 0 THEN h0
        ELSE IF req.n >= 3 /\ vn = <<>>
        THEN send_error(h0, 400, "Bad request version")
        ELSE IF req.n >= 3 /\ vn[1] >= 2
        THEN send_error(h0, 505, "Invalid HTTP version")
        ELSE IF req.n \notin 2..3
        THEN send_error(h1, 400, "Bad request syntax")
        ELSE IF req.n = 2 /\ req.command # "GET"
        THEN send_error([h1 EXCEPT !.close_connection = TRUE], 400,
                        "Bad HTTP/0.9 request type")
        ELSE h2

\* urllib.parse.urlsplit(path).path
UrlPath(path) == SplitFirst(SplitFirst(path, "#"), "?")

\* "".join(chars)
RECURSIVE StrOf(_)
StrOf(s) == IF Len(s) = 0 THEN "" ELSE Head(s) \o StrOf(Tail(s))

list_directory(hd, path) ==
    LET encoded == "Directory listing for " \o StrOf(unquote(hd.path))
        h1 == send_response(hd, 200, "OK")
        h2 == send_header(h1, "Content-type", "text/html; charset=utf-8")
        h3 == send_header(h2, "Content-Length", ToString(Len(encoded)))
        h4 == end_headers(h3)
    IN  [h4 EXCEPT !.fOpen = TRUE, !.fData = encoded]

\* variant: a file that cannot be opened is answered 403 and not 404
send_file_oserror_403(hd, req, path) ==
    LET ctype == guess_type(path) IN
    IF EndsWith(path, SLASH) THEN send_error(hd, 404, "File not found")
    ELSE IF HasNul(path) THEN [hd EXCEPT !.raised = "ValueError"]
    ELSE IF ~open_ok(path) THEN send_error(hd, 403, "Forbidden")
    ELSE IF req.ims = "notolder"
    THEN end_headers(send_response(hd, 304, "Not Modified"))
    ELSE LET h1 == send_response(hd, 200, "OK")
             h2 == send_header(h1, "Content-type", PyFormat(ctype))
             h3 == send_header(h2, "Content-Length", ToString(Len(file_bytes(path))))
             h4 == send_header(h3, "Last-Modified", "mtime")
             h5 == end_headers(h4)
         IN  [h5 EXCEPT !.fOpen = TRUE, !.fData = file_bytes(path)]

\* the part of send_head after the directory test, path naming a file; open
\* raises OSError (caught, 404) or, for a null byte, ValueError (not caught)
send_file(hd, req, path) ==
    LET ctype == guess_type(path) IN
    IF EndsWith(path, SLASH) THEN send_error(hd, 404, "File not found")
    ELSE IF HasNul(path) THEN [hd EXCEPT !.raised = "ValueError"]
    ELSE IF ~open_ok(path) THEN send_error(hd, 404, "File not found")
    ELSE IF req.ims = "notolder"
    THEN end_headers(send_response(hd, 304, "Not Modified"))
    ELSE LET h1 == send_response(hd, 200, "OK")
             h2 == send_header(h1, "Content-type", PyFormat(ctype))
             h3 == send_header(h2, "Content-Length", ToString(Len(file_bytes(path))))
             h4 == send_header(h3, "Last-Modified", "mtime")
             h5 == end_headers(h4)
         IN  [h5 EXCEPT !.fOpen = TRUE, !.fData = file_bytes(path)]

send_head(hd, req) ==
    LET path == translate_path(hd.path) IN
    IF os_path_isdir(path)
    THEN IF ~EndsWith(UrlPath(hd.path), SLASH)
         THEN LET new_url == UrlPath(hd.path) \o SLASH
                             \o SubSeq(hd.path, Len(UrlPath(hd.path)) + 1, Len(hd.path))
                  h1 == send_response(hd, 301, "Moved Permanently")
                  h2 == send_header(h1, "Location", StrOf(new_url))
                  h3 == send_header(h2, "Content-Length", "0")
              IN  end_headers(h3)
         ELSE IF os_path_isfile(os_path_join(path, INDEX_HTML))
         THEN send_file(hd, req, os_path_join(path, INDEX_HTML))
         ELSE IF os_path_isfile(os_path_join(path, INDEX_HTM))
         THEN send_file(hd, req, os_path_join(path, INDEX_HTM))
         ELSE list_directory(hd, path)
    ELSE send_file(hd, req, path)

\* handle_one_request up to the return of send_head: do_GET keeps the file
\* open for copyfile, do_HEAD closes it
handle_one_request(hd, req) ==
    IF req.long
    THEN send_error([hd EXCEPT !.request_version = "", !.command = ""], 414,
                    "Request-URI Too Long")
    ELSE LET h1 == parse_request(hd, req) IN
         IF h1.raised # "" \/ ~h1.ret THEN h1
         ELSE IF h1.command \notin {"GET", "HEAD"}
         THEN send_error(h1, 501, "Unsupported method")
         ELSE IF h1.command = "HEAD"
         THEN [send_head(h1, req) EXCEPT !.fOpen = FALSE]
         ELSE send_head(h1, req)

----------------------------------------------------------------------------
(* What a client reads from wfile *)

IsStatus(l) == l.kind = "status"
IsBody(l) == l.kind = "body"

HasHeaderBlock(w) == \E i \in 1..Len(w) : IsStatus(w[i])

\* the code of the first status line, "" when the response has none
StatusOf(w) ==
    IF HasHeaderBlock(w) THEN w[Find([i \in 1..Len(w) |-> w[i].kind], "status")].k ELSE ""

\* the values of the header lines whose name is one of keys, in wire order
RECURSIVE HeaderValues(_, _)
HeaderValues(w, keys) ==
    IF Len(w) = 0 THEN <<>>
    ELSE IF Head(w).kind = "header" /\ Head(w).k \in keys
    THEN <<Head(w).v>> \o HeaderValues(Tail(w), keys)
    ELSE HeaderValues(Tail(w), keys)

RECURSIVE BodyOf(_)
BodyOf(w) ==
    IF Len(w) = 0 THEN <<>>
    ELSE IF IsBody(Head(w)) THEN <<Head(w).v>> \o BodyOf(Tail(w))
    ELSE BodyOf(Tail(w))

\* header names are case-insensitive: send_head writes Content-type, the
\* error path and end_headers write Content-Type
ContentTypeKeys == {"Content-type", "Content-Type"}

ContentTypes(w) == HeaderValues(w, ContentTypeKeys)

Summary(w) ==
    [status |-> StatusOf(w), body |-> BodyOf(w),
     length |-> HeaderValues(w, {"Content-Length"})]

----------------------------------------------------------------------------
(* The serve loop: socketserver.TCPServer.serve_forever with the handler    *)
(* class, one connection at a time.                                         *)

NoRequest == Request(0, "", <<>>, "", FALSE, "absent")

NoMemo ==
    [set |-> FALSE, req |-> NoRequest, fs |-> <<>>, types_map |-> <<>>,
     summary |-> Summary(<<>>)]

Init ==
    /\ fs \in FileSystems
    /\ types_map \in MimeTables
    /\ running = TRUE
    /\ pc = "idle"
    /\ request = NoRequest
    /\ h = NewHandler
    /\ crashed = FALSE
    /\ memo = NoMemo

\* variant: the headers buffer is shared by the handler instances
Accept_keeps_buffer(req) ==
    /\ running /\ pc = "idle"
    /\ request' = req
    /\ h' = [NewHandler EXCEPT !.headers_buffer = h.headers_buffer]
    /\ pc' = "handling"
    /\ UNCHANGED <<fs, types_map, running, crashed, memo>>

\* a connection is accepted and a handler instance constructed for it
Accept(req) ==
    /\ running /\ pc = "idle"
    /\ request' = req
    /\ h' = NewHandler
    /\ pc' = "handling"
    /\ UNCHANGED <<fs, types_map, running, crashed, memo>>

\* handle_one_request: parse, dispatch, send the head (or the whole error)
Handle ==
    /\ running /\ pc = "handling"
    /\ h' = handle_one_request(h, request)
    /\ pc' = IF h'.raised = "" /\ h'.fOpen THEN "copy" ELSE "done"
    /\ UNCHANGED <<fs, types_map, running, request, crashed, memo>>

\* do_GET: copyfile(f, wfile), then f.close()
CopyFile ==
    /\ running /\ pc = "copy"
    /\ h' = [h EXCEPT !.wfile = Append(@, Line("body", "", h.fData)), !.fOpen = FALSE]
    /\ pc' = "done"
    /\ UNCHANGED <<fs, types_map, running, request, crashed, memo>>

\* the connection is shut down; an exception of the handler is reported by
\* handle_error and the loop goes on
Finish ==
    /\ running /\ pc = "done"
    /\ crashed' = (h.raised # "")
    /\ pc' = "idle"
    /\ UNCHANGED <<fs, types_map, running, request, h, memo>>

\* KeyboardInterrupt ends serve_forever
Interrupt ==
    /\ running
    /\ running' = FALSE
    /\ pc' = "stopped"
    /\ UNCHANGED <<fs, types_map, request, h, crashed, memo>>

Next ==
    \/ \E req \in Requests : Accept(req)
    \/ Handle
    \/ CopyFile
    \/ Finish
    \/ Interrupt

Spec == Init /\ [][Next]_vars

\* Finish, with an observer noting the response to a GET as its connection
\* ends, to compare later repeats of the request with it
Remember ==
    /\ running /\ pc = "done" /\ ~memo.set
    /\ request.command = "GET" /\ request \in WellFormed
    /\ memo' = [set |-> TRUE, req |-> request, fs |-> fs, types_map |-> types_map,
                summary |-> Summary(h.wfile)]
    /\ crashed' = (h.raised # "")
    /\ pc' = "idle"
    /\ UNCHANGED <<fs, types_map, running, request, h>>

\* the requests served while a response is remembered: every kind of GET on
\* a selection of the paths, every rejected request line, a HEAD and a POST
MemoPaths ==
    { p \in RawPaths :
        p \in { <<"/", "g">> \o DOT_JS, <<"/", "m">> \o DOT_MJS \o <<"#", "f">>,
                <<"/", "a">> \o DOT_CSS \o <<"?", "x">> \o DOT_JS, <<"/">>,
                <<"/", "d", "/">>, <<"/", "n">> \o DOT_JS, <<".", ".", "/", "s">>,
                <<"/", "k">> \o DOT_CSS } }

MemoRequests ==
    { r \in WellFormed :
        /\ r.path \in MemoPaths
        /\ \/ r.command = "GET" /\ r.version \in {"", "HTTP/1.1"} /\ r.ims # "older"
           \/ r.command \in {"HEAD", "POST"} /\ r.version = "HTTP/1.0"
              /\ r.ims = "absent" /\ r.path = <<"/", "g">> \o DOT_JS }
    \cup Malformed

AcceptMemo == \E req \in MemoRequests : Accept(req)

NextMemo ==
    \/ AcceptMemo
    \/ Handle
    \/ CopyFile
    \/ Finish
    \/ Interrupt
    \/ Remember

SpecMemo == Init /\ [][NextMemo]_vars

----------------------------------------------------------------------------
(* Properties *)

CorsHeaders ==
    << Line("header", "Access-Control-Allow-Origin", "*"),
       Line("header", "Access-Control-Allow-Methods", "GET, POST, OPTIONS"),
       Line("header", "Access-Control-Allow-Headers", "Content-Type") >>

CorsKeys == {CorsHeaders[i].k : i \in 1..3}

\* each of the three headers occurs, once, with its fixed value
HasCors(w) ==
    \A c \in 1..3 :
        /\ \E i \in 1..Len(w) : w[i] = CorsHeaders[c]
        /\ Cardinality({i \in 1..Len(w) : w[i].kind = "header" /\ w[i].k = CorsHeaders[c].k}) = 1

OverrideLine == Line("header", "Content-Type", "application/javascript")

AllEqual(vals, x) == Len(vals) >= 1 /\ \A i \in 1..Len(vals) : vals[i] = x

\* the path the request names resolves to nothing under the document root
Missing ==
    /\ h.hasPath
    /\ ~os_path_isfile(translate_path(h.path))
    /\ ~os_path_isdir(translate_path(h.path))

\* the request path, appended to the document root and resolved with its ".."
\* segments, names an existing file outside the document root
NamesOutsideFile ==
    LET target == Canon(directory \o SLASH \o unquote(UrlPath(request.path))) IN
    /\ request \in WellFormed
    /\ target \in DOMAIN fs.files
    /\ ~InsideRoot(target)

OutsideBytes == {fs.files[p] : p \in {q \in DOMAIN fs.files : ~InsideRoot(q)}}

\* C1 as stated: every response the server emits, whatever its status, method
\* or path, has the three CORS headers with their exact values.
C1_EveryResponseHasCors ==
    (pc = "done" /\ h.wfile # <<>>) => HasCors(h.wfile)

\* C1 as amended: every response that has a header block (the answer to a
\* request line that names an HTTP/1.x version) has the three CORS headers,
\* each once and with its exact value.
C1_HeaderBlockHasCors ==
    HasHeaderBlock(h.wfile) => HasCors(h.wfile)

C1_ErrorResponseWithCors ==
    /\ pc = "done"
    /\ request.command = "POST"
    /\ StatusOf(h.wfile) = "501"
    /\ HasCors(h.wfile)

\* C2 as stated: a GET that is answered 200 with a file whose extension is
\* exactly .js or .mjs (query string or fragment allowed in the request path)
\* has Content-Type application/javascript and no other.
C2_JsContentType ==
    ( /\ pc = "done"
      /\ request \in WellFormed /\ request.command = "GET"
      /\ StatusOf(h.wfile) = "200"
      /\ ~os_path_isdir(translate_path(h.path))
      /\ splitext_ext(translate_path(h.path)) \in {DOT_JS, DOT_MJS} )
    => AllEqual(ContentTypes(h.wfile), "application/javascript")

\* C3 as stated: a request answered 200 with a file whose extension is not
\* exactly .js or .mjs has the MIME table's type for that extension as its
\* Content-Type, whatever the query string or fragment of the request path.
C3_OtherContentType ==
    ( /\ pc = "done"
      /\ request \in WellFormed /\ request.command \in {"GET", "HEAD"}
      /\ StatusOf(h.wfile) = "200"
      /\ ~os_path_isdir(translate_path(h.path))
      /\ splitext_ext(translate_path(h.path)) \notin {DOT_JS, DOT_MJS} )
    => AllEqual(ContentTypes(h.wfile), super_guess_type(translate_path(h.path)))

C6_RepeatedGetSameResponse ==
    /\ memo.set => (fs = memo.fs /\ types_map = memo.types_map)
    /\ (pc = "done" /\ memo.set /\ request = memo.req)
       => Summary(h.wfile) = memo.summary

C6_RepeatAfterCrash ==
    /\ pc = "done" /\ memo.set /\ request = memo.req
    /\ crashed
    /\ memo.summary.status = "200"
    /\ memo.summary.length = <<"17">>
    /\ Summary(h.wfile) = memo.summary

\* C7 as stated, for its malformed request lines: the failure becomes a
\* response with an error status that carries the CORS headers.
C7_MalformedGetsErrorResponse ==
    (pc = "done" /\ request \in Malformed /\ request.n # 0)
    => /\ StatusOf(h.wfile) \in {"400", "414", "505"}
       /\ HasCors(h.wfile)

\* C8: in every header block the three CORS headers stand together after the
\* status line and every header the base logic set, and before the blank line
\* that ends the block; only end_headers' own Content-Type may follow them.
C8_CorsAfterBaseHeaders ==
    LET w == h.wfile IN
    HasHeaderBlock(w) =>
        \E i \in 1..(Len(w) - 3) :
            /\ SubSeq(w, i, i + 2) = CorsHeaders
            /\ \A j \in 1..(i - 1) :
                   w[j].kind \in {"status", "header"} /\ w[j].k \notin CorsKeys
            /\ \A j \in (i + 3)..Len(w) :
                   w[j].kind \in {"blank", "body"} \/ w[j] = OverrideLine
            /\ \E j \in (i + 3)..Len(w) :
                   w[j].kind = "blank" /\ \A m \in 1..j : ~IsBody(w[m])

C8_ErrorBlockWithOverride ==
    /\ pc = "done"
    /\ StatusOf(h.wfile) = "404"
    /\ \E i \in 1..Len(h.wfile) : h.wfile[i] = OverrideLine
    /\ \E i \in 1..Len(h.wfile) : h.wfile[i] = Line("header", "Content-Type", error_content_type)
    /\ HasCors(h.wfile)

\* C9: when the first body byte is written the header block is complete: the
\* headers buffer is empty, the block has been ended by its blank line (an
\* HTTP/0.9 answer has no block), and nothing but body follows body.
C9_HeadersCompleteBeforeBody ==
    LET w == h.wfile IN
    /\ (\E i \in 1..Len(w) : IsBody(w[i])) =>
          /\ h.headers_buffer = <<>>
          /\ \A i, j \in 1..Len(w) : (i < j /\ IsBody(w[i])) => IsBody(w[j])
          /\ h.request_version # "HTTP/0.9" =>
                \E j \in 1..Len(w) : w[j].kind = "blank" /\ \A m \in 1..j : ~IsBody(w[m])
    /\ pc = "copy" =>
          /\ h.headers_buffer = <<>>
          /\ h.request_version # "HTTP/0.9" => w[Len(w)].kind = "blank"

C9_BodyAfterOverriddenBlock ==
    /\ pc = "done"
    /\ StatusOf(h.wfile) = "200"
    /\ BodyOf(h.wfile) = <<"export default 1;">>
    /\ \E i \in 1..Len(h.wfile) : h.wfile[i] = OverrideLine

\* the Content-Type values the base logic and the override can mean to send
MimeTypes ==
    { "application/javascript", "text/javascript", "text/css", "text/html",
      "application/octet-stream", "text/html; charset=utf-8", error_content_type }

\* C10 as stated: a response never has two Content-Type headers with different
\* values, and each Content-Type value is a well-formed MIME type.
C10_OneContentType ==
    pc = "done" =>
        LET v == ContentTypes(h.wfile) IN
        /\ \A i, j \in 1..Len(v) : v[i] = v[j]
        /\ \A i \in 1..Len(v) : v[i] \in MimeTypes

====
